---- MODULE Spec2Model ----
(***************************************************************************)
(* SnapshotProvider (crates/storage/provider/src/providers/snapshot.rs)    *)
(* over one frozen NippyJar segment.  The provider methods are translated  *)
(* from snapshot.rs.  The segment container, its builder and its cursor    *)
(* (crate reth_nippy_jar, reth_db::snapshot) and the value codecs          *)
(* (reth_primitives, reth_db::table) live outside the files at hand and    *)
(* are modelled from the written specification of the storage engine.      *)
(***************************************************************************)
EXTENDS Integers, Sequences, FiniteSets, TLC

VARIABLES
    kind,   \* which tables were frozen: "headers" (2 columns) or "transactions" (1 column)
    db,     \* the mutable database the rows are frozen from
    jar,    \* the loaded segment the provider borrows (NoJar before the build)
    cur,    \* a caller-held cursor over jar, with its decompressor state
    last,   \* the last call made and what it returned
    asked,  \* the index structures the cursor call in progress has consulted, in order
    fs,     \* the files of a segment build: temporary path, final path, build in progress
    readers, \* concurrent readers of the segment, each holding a cursor
    rlp,    \* a receipt, its RLP encoding and what decoding it gave
    gas,    \* a Receipts collection and the result of gas_spent_by_tx
    net     \* the FetchClient's request channel, its calls and their futures

\* State of the machines modelled further down; the provider leaves it alone
codec == <<rlp, gas>>
aux == <<fs, readers, codec, net>>

vars == <<kind, db, jar, cur, last, asked, aux>>

\* The machines that are not running
NoRlp == [step |-> "idle"]
NoGas == [step |-> "idle"]
NoNet == [step |-> "idle"]

(***************************************************************************)
(* Bounds of the model                                                     *)
(***************************************************************************)
MaxRows == 2        \* a segment holds 1..MaxRows rows
MaxStart == 1       \* the frozen range starts at 0..MaxStart
NumReaders == 2     \* readers of one segment at the same time
MaxBlocks == 2      \* blocks in a Receipts collection
MaxTxs == 2         \* receipts of one block
MaxCalls == 2       \* calls made on one FetchClient

Difficulties == {0, 1}                 \* header.difficulty / transaction value
MaxNumber == MaxStart + MaxRows        \* one number past the last possible row
Numbers == 0..MaxNumber

(***************************************************************************)
(* Values and their canonical keys                                         *)
(***************************************************************************)
Header(n, d) == [number |-> n, difficulty |-> d]
Tx(n, v) == [nonce |-> n, value |-> v]

\* Header::hash_slow: the hash of the header's contents.  Distinct contents
\* give distinct hashes (keccak256 is treated as collision free); key 0 is
\* the hash of no value at all.
hash_slow(h) == 1 + h.difficulty + h.number * Cardinality(Difficulties)

\* TransactionSignedNoHash::with_hash / TransactionSigned::hash
tx_hash(t) == 1 + t.value + t.nonce * Cardinality(Difficulties)

Keys == 0..((MaxNumber + 1) * Cardinality(Difficulties))

(***************************************************************************)
(* Value codecs: Compress / Decompress of the table value types            *)
(***************************************************************************)
DecodeError == [ok |-> FALSE]
Decoded(v) == [ok |-> TRUE, val |-> v]

\* Header as table value: its fields one after the other
CompressHeader(h) == <<h.number, h.difficulty>>
DecompressHeader(b) ==
    IF Len(b) = 2 THEN Decoded(Header(b[1], b[2])) ELSE DecodeError

\* HeaderTD value (a U256): compact, the zero value takes no byte
CompressTD(td) == IF td = 0 THEN <<>> ELSE <<td>>
DecompressTD(b) ==
    IF Len(b) = 0 THEN Decoded(0)
    ELSE IF Len(b) = 1 /\ b[1] # 0 THEN Decoded(b[1])
    ELSE DecodeError

CompressTx(t) == <<t.nonce, t.value>>
DecompressTx(b) ==
    IF Len(b) = 2 THEN Decoded(Tx(b[1], b[2])) ELSE DecodeError

(***************************************************************************)
(* Column compression: a zstd frame is its magic followed by the payload   *)
(***************************************************************************)
ZstdMagic == 40
ZstdCompress(b) == <<ZstdMagic>> \o b
ZstdDecompress(b) ==
    IF Len(b) >= 1 /\ b[1] = ZstdMagic THEN Decoded(Tail(b)) ELSE DecodeError

(***************************************************************************)
(* The mutable database: the tables the rows are frozen from               *)
(***************************************************************************)
RECURSIVE SumDifficulty(_, _)
SumDifficulty(hs, i) ==
    IF i = 0 THEN 0 ELSE hs[i].difficulty + SumDifficulty(hs, i - 1)

\* The tables as the setup fills them, in block order: Headers, HeaderTD
\* (running total of the difficulties), CanonicalHeaders (number -> hash)
DbRowCount == IF kind = "headers" THEN Len(db.headers) ELSE Len(db.txs)
DbHeaderTD(i) == SumDifficulty(db.headers, i)
DbCanonicalHash(i) == hash_slow(db.headers[i])

\* Results of a provider call: RethResult<Option<T>>, or the call panics
OkSome(v) == [res |-> "OkSome", val |-> v]
OkNone == [res |-> "OkNone"]
Err(e) == [res |-> "Err", err |-> e]
Panic(why) == [res |-> "Panic", why |-> why]

\* DatabaseProvider::header / header_td: HeaderNumbers (hash -> number),
\* then Headers / HeaderTD at that number
db_header(block_hash) ==
    IF \E i \in 1..Len(db.headers) : DbCanonicalHash(i) = block_hash
    THEN OkSome(db.headers[CHOOSE i \in 1..Len(db.headers) : DbCanonicalHash(i) = block_hash])
    ELSE OkNone

db_header_td(block_hash) ==
    IF \E i \in 1..Len(db.headers) : DbCanonicalHash(i) = block_hash
    THEN OkSome(DbHeaderTD(CHOOSE i \in 1..Len(db.headers) : DbCanonicalHash(i) = block_hash))
    ELSE OkNone

(***************************************************************************)
(* Segment container: C columns of M rows, a byte stream and an offset     *)
(* table per column, a membership filter and a perfect hash over the keys  *)
(***************************************************************************)
RECURSIVE Flatten(_)
Flatten(rows) ==
    IF rows = <<>> THEN <<>> ELSE Head(rows) \o Flatten(Tail(rows))

\* entry i (1-based) is the offset where row i-1 starts; the last entry is
\* the end of the stream
OffsetTable(rows) ==
    [i \in 1..(Len(rows) + 1) |-> Len(Flatten(SubSeq(rows, 1, i - 1)))]

Column(rows) == [data |-> Flatten(rows), offsets |-> OffsetTable(rows)]

MaybeZstd(zstd, b) == IF zstd THEN ZstdCompress(b) ELSE b

\* SegmentHeader::new(block_range, tx_range)
SegmentHeader(block_range, tx_range) ==
    [block_start |-> block_range[1], block_end |-> block_range[2],
     tx_start |-> tx_range[1], tx_end |-> tx_range[2]]

NoJar ==
    [loaded |-> FALSE, intact |-> TRUE, user_header |-> SegmentHeader(<<0, 0>>, <<0, 0>>), rows |-> 0,
     zstd |-> FALSE, columns |-> <<>>, filter |-> {}, phf |-> [k \in Keys |-> 0]]

\* The key stream walked from the last canonical header back to the first
FreezeKeys_backwards ==
    IF kind = "headers"
    THEN [i \in 1..Len(db.headers) |-> DbCanonicalHash(Len(db.headers) + 1 - i)]
    ELSE [i \in 1..Len(db.txs) |-> tx_hash(db.txs[Len(db.txs) + 1 - i])]

\* The keys handed to the builder, by position
FreezeKeys ==
    IF kind = "headers"
    THEN [i \in 1..Len(db.headers) |-> DbCanonicalHash(i)]
    ELSE [i \in 1..Len(db.txs) |-> tx_hash(db.txs[i])]

\* The rows handed to the builder, one list of encoded values per column
FreezeColumns ==
    IF kind = "headers"
    THEN << [i \in 1..Len(db.headers) |-> CompressHeader(db.headers[i])],
            [i \in 1..Len(db.headers) |-> CompressTD(DbHeaderTD(i))] >>
    ELSE << [i \in 1..Len(db.txs) |-> CompressTx(db.txs[i])] >>

\* The minimal perfect hash over the exact key set: a build-time key maps
\* to its position; any other key maps to some row number, stray
PerfectHash(keys, stray) ==
    [k \in Keys |->
        IF \E i \in 1..Len(keys) : keys[i] = k
        THEN (CHOOSE i \in 1..Len(keys) : keys[i] = k) - 1
        ELSE stray]

\* create_snapshot_T1_T2 into a jar made with_zstd / with_cuckoo_filter /
\* with_fmph: fp are the absent keys the filter lets through
BuildJar(zstd, fp, stray) ==
    LET cols == FreezeColumns
        keys == FreezeKeys
        m == DbRowCount
        range == <<db.start, db.start + m - 1>>
    IN  [loaded |-> TRUE,
         intact |-> TRUE,
         user_header |-> SegmentHeader(IF kind = "headers" THEN range ELSE <<0, 0>>, range),
         rows |-> m,
         zstd |-> zstd,
         columns |-> [c \in 1..Len(cols) |->
                        Column([i \in 1..m |-> MaybeZstd(zstd, cols[c][i])])],
         filter |-> {keys[i] : i \in 1..m} \cup fp,
         phf |-> PerfectHash(keys, stray)]

(***************************************************************************)
(* Segment files                                                           *)
(***************************************************************************)
\* The first k rows of a column
TruncatedColumn(col, k) ==
    [data |-> SubSeq(col.data, 1, col.offsets[k + 1]),
     offsets |-> SubSeq(col.offsets, 1, k + 1)]

\* The file of segment j after k of its rows were written; the index blobs
\* are written last
File(j, k, indexed) ==
    [exists |-> TRUE,
     indexed |-> indexed,
     seg |-> [j EXCEPT !.columns = [c \in 1..Len(j.columns) |-> TruncatedColumn(j.columns[c], k)],
                       !.filter = IF indexed THEN j.filter ELSE {},
                       !.phf = IF indexed THEN j.phf ELSE [k2 \in Keys |-> 0]]]

NoFile == [exists |-> FALSE, indexed |-> FALSE, seg |-> NoJar]

\* load(path): all-or-nothing; the row count is checked against every
\* column's offset table and the declared indexes must be there
load(f) ==
    IF ~f.exists THEN Err("io")
    ELSE IF \/ ~f.indexed
            \/ \E c \in 1..Len(f.seg.columns) : Len(f.seg.columns[c].offsets) # f.seg.rows + 1
         THEN Err("format")
         ELSE OkSome(f.seg)

NoBuild == [active |-> FALSE, zstd |-> FALSE, keys |-> <<>>, written |-> 0]

\* before: the file at the final path when the last build began
\* outcome: how the last build ended
NoFiles == [tmp |-> NoFile, final |-> NoFile, build |-> NoBuild,
            before |-> NoFile, outcome |-> "none"]

(***************************************************************************)
(* Segment cursor: NippyJarCursor                                          *)
(***************************************************************************)
\* Results of a cursor read: Result<Option<Vec<&[u8]>>>
Row(cols) == [res |-> "Row", cols |-> cols]
NoRow == [res |-> "NoRow"]
CursorErr(e) == [res |-> "Err", err |-> e]

None == [some |-> FALSE, cols |-> {}]
Some(cols) == [some |-> TRUE, cols |-> cols]

ColumnIds == 0..(Len(jar.columns) - 1)

\* NippyJarCursor::new(jar, zstd_decompressors): never fails for want of
\* decompressors.  decomp: the columns whose decompressor is live;
\* made[c]: how many decompressors this cursor constructed for column c
NippyJarCursor_new(decompressors) ==
    [open |-> TRUE,
     lazy |-> ~decompressors.some,
     decomp |-> decompressors.cols,
     made |-> [c \in 0..1 |-> 0]]

ClosedCursor == [open |-> FALSE, lazy |-> TRUE, decomp |-> {}, made |-> [c \in 0..1 |-> 0]]

\* curs[s]: the cursor in slot s; holds[r]: the slot of the cursor reader r
\* holds (0: none); who: the reader whose read is in progress (0: none);
\* prev: the cursors as they were before that read
NoReaders ==
    [curs |-> [s \in 1..NumReaders |-> ClosedCursor],
     holds |-> [r \in 1..NumReaders |-> 0],
     who |-> 0,
     prev |-> [s \in 1..NumReaders |-> ClosedCursor]]

\* One column of one row: the byte range the offset table gives,
\* decompressed with the column's codec
read_value(c, col, row) ==
    LET column == jar.columns[col + 1]
        from == column.offsets[row + 1]
        to == column.offsets[row + 2]
    IN  IF from > to \/ to > Len(column.data)
        THEN [err |-> "offsets", bytes |-> <<>>, cur |-> c]
        ELSE LET raw == SubSeq(column.data, from + 1, to) IN
             IF ~jar.zstd THEN [err |-> "", bytes |-> raw, cur |-> c]
             ELSE IF ~c.lazy /\ col \notin c.decomp
             THEN [err |-> "decompressor", bytes |-> <<>>, cur |-> c]
             ELSE LET c2 == IF col \in c.decomp THEN c
                            ELSE [c EXCEPT !.decomp = @ \cup {col},
                                           !.made[col] = @ + 1]
                      d == ZstdDecompress(raw)
                  IN  IF d.ok THEN [err |-> "", bytes |-> d.val, cur |-> c2]
                      ELSE [err |-> "decompress", bytes |-> <<>>, cur |-> c2]

RECURSIVE ReadCols(_, _, _, _, _)
ReadCols(c, mask, col, columns, row) ==
    IF col >= columns THEN [err |-> "", cols |-> <<>>, cur |-> c]
    ELSE IF (mask \div (2 ^ col)) % 2 = 0 THEN ReadCols(c, mask, col + 1, columns, row)
    ELSE LET v == read_value(c, col, row) IN
         IF v.err # "" THEN [err |-> v.err, cols |-> <<>>, cur |-> v.cur]
         ELSE LET rest == ReadCols(v.cur, mask, col + 1, columns, row) IN
              [err |-> rest.err, cols |-> <<v.bytes>> \o rest.cols, cur |-> rest.cur]

\* row_by_number_with_cols::<MASK, COLUMNS>(row): out is the result, cur
\* the cursor afterwards
row_by_number_with_cols(c, mask, columns, row) ==
    IF columns > Len(jar.columns) \/ mask >= 2 ^ columns
    THEN [out |-> CursorErr("mask"), cur |-> c]
    ELSE IF row >= jar.rows THEN [out |-> NoRow, cur |-> c]
    ELSE LET r == ReadCols(c, mask, 0, columns, row) IN
         [out |-> IF r.err # "" THEN CursorErr(r.err) ELSE Row(r.cols), cur |-> r.cur]

\* A key lookup that asks the perfect hash without asking the filter
row_by_key_unfiltered(c, mask, columns, key) ==
    LET r == row_by_number_with_cols(c, mask, columns, jar.phf[key])
    IN  [out |-> r.out, cur |-> r.cur, asked |-> <<"phf", "columns">>]

\* row_by_key_with_cols::<MASK, COLUMNS>(key): filter, then perfect hash,
\* then the row of that number; the key is not compared.  asked lists the
\* structures consulted, in order
row_by_key_with_cols(c, mask, columns, key) ==
    IF key \notin jar.filter
    THEN [out |-> NoRow, cur |-> c, asked |-> <<"filter">>]
    ELSE LET r == row_by_number_with_cols(c, mask, columns, jar.phf[key])
         IN  [out |-> r.out, cur |-> r.cur, asked |-> <<"filter", "phf", "columns">>]

(***************************************************************************)
(* SnapshotProvider                                                        *)
(***************************************************************************)
\* BlockNumber and TxNumber are u64; the model's word is 16 bits wide
Word == 2 ^ 16
WrappingSub(a, b) == (a - b + Word) % Word

\* Mutant of cursor: an empty list of decompressors instead of None
cursor_empty_decompressors == NippyJarCursor_new(Some({}))

\* SnapshotProvider::cursor: NippyJarCursor::new(self.jar, None).unwrap()
cursor == NippyJarCursor_new(None)

\* SnapshotProvider::cursor_with_decompressors
cursor_with_decompressors(decompressors) == NippyJarCursor_new(Some(decompressors))

\* TransactionSignedNoHash::with_hash, and Into<TransactionSigned>
WithHash(t) == [hash |-> tx_hash(t), transaction |-> t]

\* Mutant of header: the mask selects the total-difficulty column
header_mask_td(block_hash) ==
    LET r == row_by_key_with_cols(cursor, 2, 2, block_hash).out IN
    IF r.res = "Err" THEN Panic("unwrap on Err")
    ELSE IF r.res = "NoRow" THEN Panic("unwrap on None")
    ELSE LET h == DecompressHeader(r.cols[1]) IN
         IF ~h.ok THEN Panic("unwrap on Err")
         ELSE IF hash_slow(h.val) = block_hash THEN OkSome(h.val)
         ELSE OkNone

\* HeaderProvider::header
header(block_hash) ==
    LET r == row_by_key_with_cols(cursor, 1, 2, block_hash).out IN
    IF r.res = "Err" THEN Panic("unwrap on Err")
    ELSE IF r.res = "NoRow" THEN Panic("unwrap on None")
    ELSE LET h == DecompressHeader(r.cols[1]) IN
         IF ~h.ok THEN Panic("unwrap on Err")
         ELSE IF hash_slow(h.val) = block_hash THEN OkSome(h.val)
         ELSE OkNone

\* Mutant of header_by_number: the row index is one too high
header_by_number_off_by_one(num, checked) ==
    IF num < jar.user_header.block_start /\ checked
    THEN Panic("attempt to subtract with overflow")
    ELSE LET row == WrappingSub(num, jar.user_header.block_start) + 1
             r == row_by_number_with_cols(cursor, 1, 2, row).out
         IN  IF r.res = "Err" THEN Err(r.err)
             ELSE IF r.res = "NoRow" THEN Err("HeaderNotFound")
             ELSE LET h == DecompressHeader(r.cols[1]) IN
                  IF h.ok THEN OkSome(h.val) ELSE Err("decode")

\* HeaderProvider::header_by_number.  checked: the build traps on integer
\* overflow (debug profile); otherwise the subtraction wraps
header_by_number(num, checked) ==
    IF num < jar.user_header.block_start /\ checked
    THEN Panic("attempt to subtract with overflow")
    ELSE LET row == WrappingSub(num, jar.user_header.block_start)
             r == row_by_number_with_cols(cursor, 1, 2, row).out
         IN  IF r.res = "Err" THEN Err(r.err)
             ELSE IF r.res = "NoRow" THEN Err("HeaderNotFound")
             ELSE LET h == DecompressHeader(r.cols[1]) IN
                  IF h.ok THEN OkSome(h.val) ELSE Err("decode")

\* Mutant of header_td: the row the index gives is trusted, not compared
header_td_unverified(block_hash) ==
    LET r == row_by_key_with_cols(cursor, 3, 2, block_hash).out IN
    IF r.res = "Err" THEN Panic("unwrap on Err")
    ELSE IF r.res = "NoRow" THEN Panic("unwrap on None")
    ELSE LET h == DecompressHeader(r.cols[1])
             td == DecompressTD(r.cols[2])
         IN  IF ~h.ok \/ ~td.ok THEN Panic("unwrap on Err")
             ELSE OkSome(td.val)

\* HeaderProvider::header_td
header_td(block_hash) ==
    LET r == row_by_key_with_cols(cursor, 3, 2, block_hash).out IN
    IF r.res = "Err" THEN Panic("unwrap on Err")
    ELSE IF r.res = "NoRow" THEN Panic("unwrap on None")
    ELSE LET h == DecompressHeader(r.cols[1])
             td == DecompressTD(r.cols[2])
         IN  IF ~h.ok \/ ~td.ok THEN Panic("unwrap on Err")
             ELSE IF hash_slow(h.val) = block_hash THEN OkSome(td.val)
             ELSE OkNone

\* Mutant of transaction_by_id: the block range's start is subtracted
transaction_by_id_block_start(num, checked) ==
    IF num < jar.user_header.block_start /\ checked
    THEN Panic("attempt to subtract with overflow")
    ELSE LET row == WrappingSub(num, jar.user_header.block_start)
             r == row_by_number_with_cols(cursor, 1, 1, row).out
         IN  IF r.res = "Err" THEN Err(r.err)
             ELSE IF r.res = "NoRow" THEN Err("TransactionNotFound")
             ELSE LET t == DecompressTx(r.cols[1]) IN
                  IF t.ok THEN OkSome(WithHash(t.val)) ELSE Err("decode")

\* TransactionsProvider::transaction_by_id
transaction_by_id(num, checked) ==
    IF num < jar.user_header.tx_start /\ checked
    THEN Panic("attempt to subtract with overflow")
    ELSE LET row == WrappingSub(num, jar.user_header.tx_start)
             r == row_by_number_with_cols(cursor, 1, 1, row).out
         IN  IF r.res = "Err" THEN Err(r.err)
             ELSE IF r.res = "NoRow" THEN Err("TransactionNotFound")
             ELSE LET t == DecompressTx(r.cols[1]) IN
                  IF t.ok THEN OkSome(WithHash(t.val)) ELSE Err("decode")

\* TransactionsProvider::transaction_by_hash
transaction_by_hash(hash) ==
    LET r == row_by_key_with_cols(cursor, 1, 1, hash).out IN
    IF r.res = "Err" THEN Panic("unwrap on Err")
    ELSE IF r.res = "NoRow" THEN Panic("unwrap on None")
    ELSE LET t == DecompressTx(r.cols[1]) IN
         IF ~t.ok THEN Panic("unwrap on Err")
         ELSE IF WithHash(t.val).hash = hash THEN OkSome(WithHash(t.val))
         ELSE OkNone

\* The methods whose body is unimplemented!() or todo!()
HeaderPlaceholders ==
    {"header_td_by_number", "headers_range", "sealed_headers_range", "sealed_header"}
BlockPlaceholders ==
    {"block_hash", "canonical_hashes_range", "chain_info", "best_block_number",
     "last_block_number", "block_number"}
TransactionPlaceholders ==
    {"transaction_id", "transaction_by_id_no_hash", "transaction_by_hash_with_meta",
     "transaction_block", "transactions_by_block", "transactions_by_block_range",
     "senders_by_tx_range", "transactions_by_tx_range", "transaction_sender"}
Placeholders == HeaderPlaceholders \cup BlockPlaceholders \cup TransactionPlaceholders

placeholder(op) ==
    IF op \in HeaderPlaceholders THEN Panic("not implemented")
    ELSE Panic("not yet implemented")

(***************************************************************************)
(* State machine.  A call runs to completion in one step and leaves its    *)
(* result in last; the caller takes the result (Resume) before its next    *)
(* call.  The provider's own calls work on a fresh cursor each, so they    *)
(* are taken while the caller holds no cursor of its own.                  *)
(***************************************************************************)
\* before: the decompressors the caller's cursor held when the call was made
Call(op, arg, mask, out) ==
    [op |-> op, arg |-> arg, mask |-> mask, before |-> cur.decomp, out |-> out]
NoCall == [op |-> "none", arg |-> 0, mask |-> 0, before |-> {}, out |-> OkNone]

\* The database holds the rows of start .. start + m - 1 and nothing else
Init ==
    /\ kind \in {"headers", "transactions"}
    /\ \E start \in 0..MaxStart, m \in 1..MaxRows :
        \E d \in [1..m -> Difficulties] :
            db = [start |-> start,
                  headers |-> IF kind = "headers"
                              THEN [i \in 1..m |-> Header(start + i - 1, d[i])]
                              ELSE <<>>,
                  txs |-> IF kind = "transactions"
                          THEN [i \in 1..m |-> Tx(start + i - 1, d[i])]
                          ELSE <<>>]
    /\ jar = NoJar
    /\ cur = ClosedCursor
    /\ last = NoCall
    /\ asked = <<>>
    /\ fs = NoFiles
    /\ readers = NoReaders
    /\ rlp = NoRlp /\ gas = NoGas /\ net = NoNet

\* Freeze the database's rows into a segment and load it.  At most one
\* absent key passes the filter; the perfect hash sends absent keys to stray
Freeze ==
    /\ ~jar.loaded
    /\ \E zstd \in BOOLEAN :
        \/ jar' = BuildJar(zstd, {}, 0)
        \/ \E k \in Keys \ {FreezeKeys[i] : i \in 1..DbRowCount}, stray \in 0..DbRowCount :
            jar' = BuildJar(zstd, {k}, stray)
    /\ UNCHANGED <<aux, kind, db, cur, last, asked>>

Ready == jar.loaded /\ ~cur.open /\ last = NoCall

CallHeader ==
    /\ Ready /\ kind = "headers"
    /\ \E block_hash \in Keys :
        last' = Call("header", block_hash, 0, header(block_hash))
    /\ UNCHANGED <<aux, kind, db, jar, cur, asked>>

CallHeaderByNumber ==
    /\ Ready /\ kind = "headers"
    /\ \E num \in Numbers, checked \in BOOLEAN :
        last' = Call("header_by_number", num, 0, header_by_number(num, checked))
    /\ UNCHANGED <<aux, kind, db, jar, cur, asked>>

CallHeaderTd ==
    /\ Ready /\ kind = "headers"
    /\ \E block_hash \in Keys :
        last' = Call("header_td", block_hash, 0, header_td(block_hash))
    /\ UNCHANGED <<aux, kind, db, jar, cur, asked>>

CallTransactionById ==
    /\ Ready /\ kind = "transactions"
    /\ \E num \in Numbers, checked \in BOOLEAN :
        last' = Call("transaction_by_id", num, 0, transaction_by_id(num, checked))
    /\ UNCHANGED <<aux, kind, db, jar, cur, asked>>

CallTransactionByHash ==
    /\ Ready /\ kind = "transactions"
    /\ \E hash \in Keys :
        last' = Call("transaction_by_hash", hash, 0, transaction_by_hash(hash))
    /\ UNCHANGED <<aux, kind, db, jar, cur, asked>>

CallPlaceholder ==
    /\ Ready
    /\ \E op \in Placeholders : last' = Call(op, 0, 0, placeholder(op))
    /\ UNCHANGED <<aux, kind, db, jar, cur, asked>>

\* The caller takes the result
Resume ==
    /\ last # NoCall
    /\ last' = NoCall
    /\ asked' = <<>>
    /\ UNCHANGED <<aux, kind, db, jar, cur>>

\* A caller takes a cursor from the provider and keeps it; the decompressors
\* it may hand over are the jar's own, one per compressed column
OpenCursor ==
    /\ Ready
    /\ cur' = cursor
    /\ UNCHANGED <<aux, kind, db, jar, last, asked>>

OpenCursorWithDecompressors ==
    /\ Ready
    /\ cur' = cursor_with_decompressors(IF jar.zstd THEN ColumnIds ELSE {})
    /\ UNCHANGED <<aux, kind, db, jar, last, asked>>

CursorRowByNumber ==
    /\ cur.open /\ last = NoCall
    /\ \E mask \in 1..(2 ^ Len(jar.columns) - 1), row \in 0..MaxRows :
        LET r == row_by_number_with_cols(cur, mask, Len(jar.columns), row) IN
        /\ cur' = r.cur
        /\ last' = Call("row_by_number", row, mask, r.out)
        /\ asked' = <<"columns">>
    /\ UNCHANGED <<aux, kind, db, jar>>

CursorRowByKey ==
    /\ cur.open /\ last = NoCall
    /\ \E mask \in 1..(2 ^ Len(jar.columns) - 1), key \in Keys :
        LET r == row_by_key_with_cols(cur, mask, Len(jar.columns), key) IN
        /\ cur' = r.cur
        /\ last' = Call("row_by_key", key, mask, r.out)
        /\ asked' = r.asked
    /\ UNCHANGED <<aux, kind, db, jar>>

\* The caller is done with its cursor
DropCursor ==
    /\ cur.open /\ last = NoCall
    /\ cur' = ClosedCursor
    /\ UNCHANGED <<aux, kind, db, jar, last, asked>>

Next ==
    \/ Freeze
    \/ CallHeader
    \/ CallHeaderByNumber
    \/ CallHeaderTd
    \/ CallTransactionById
    \/ CallTransactionByHash
    \/ CallPlaceholder
    \/ Resume
    \/ OpenCursor
    \/ OpenCursorWithDecompressors
    \/ CursorRowByNumber
    \/ CursorRowByKey
    \/ DropCursor

Spec == Init /\ [][Next]_vars

(***************************************************************************)
(* Damage to the segment's bytes after it was built: an offset entry one   *)
(* too low, an offset entry past the end of the stream, or a byte          *)
(* overwritten.  The provider then reads what is there.                    *)
(***************************************************************************)
Corrupt ==
    /\ Ready /\ jar.intact
    /\ \E c \in 1..Len(jar.columns) :
        \/ \E i \in 2..(jar.rows + 1) :
            /\ jar.columns[c].offsets[i] > 0
            /\ jar' = [jar EXCEPT !.intact = FALSE, !.columns[c].offsets[i] = @ - 1]
        \/ \E i \in 2..(jar.rows + 1) :
            jar' = [jar EXCEPT !.intact = FALSE,
                               !.columns[c].offsets[i] = Len(jar.columns[c].data) + 1]
        \/ \E j \in 1..Len(jar.columns[c].data) :
            /\ jar.columns[c].data[j] # 0
            /\ jar' = [jar EXCEPT !.intact = FALSE, !.columns[c].data[j] = 0]
    /\ UNCHANGED <<aux, kind, db, cur, last, asked>>

NextFault ==
    \/ Freeze
    \/ Corrupt
    \/ CallHeader
    \/ CallHeaderByNumber
    \/ CallHeaderTd
    \/ CallTransactionById
    \/ CallTransactionByHash
    \/ Resume

SpecFault == Init /\ [][NextFault]_vars

(***************************************************************************)
(* The builder's files.  A build writes its rows one at a time, then the   *)
(* indexes, to the file at BuildPath and publishes it at the final path by *)
(* renaming; it may fail at any step.  Readers load the final path.        *)
(***************************************************************************)
\* A builder that writes where readers load
BuildPath_final == "final"

\* Where the builder writes: a temporary location
BuildPath == "tmp"

\* A key stream whose last key repeats the first
RepeatedKeys == [FreezeKeys EXCEPT ![DbRowCount] = FreezeKeys[1]]

BuildStart ==
    /\ ~fs.build.active /\ last = NoCall
    /\ \E zstd \in BOOLEAN, keys \in {FreezeKeys, RepeatedKeys} :
        fs' = [[fs EXCEPT !.before = fs.final,
                          !.outcome = "building",
                          !.build = [active |-> TRUE, zstd |-> zstd, keys |-> keys, written |-> 0]]
                  EXCEPT ![BuildPath] = File(BuildJar(zstd, {}, 0), 0, FALSE)]
    /\ UNCHANGED <<kind, db, jar, cur, last, asked, readers, codec, net>>

BuildWriteRow ==
    /\ fs.build.active /\ fs.build.written < DbRowCount
    /\ fs' = [[fs EXCEPT !.build.written = @ + 1]
                  EXCEPT ![BuildPath] = File(BuildJar(fs.build.zstd, {}, 0),
                                             fs.build.written + 1, FALSE)]
    /\ UNCHANGED <<kind, db, jar, cur, last, asked, readers, codec, net>>

\* The build ends without publishing; what it wrote stays or is removed
Abandon(removed) ==
    [[fs EXCEPT !.build = NoBuild, !.outcome = "failed"]
        EXCEPT ![BuildPath] = IF removed THEN NoFile ELSE @]

\* An I/O failure at any step of the build
BuildFailIO ==
    /\ fs.build.active
    /\ \E removed \in BOOLEAN : fs' = Abandon(removed)
    /\ UNCHANGED <<kind, db, jar, cur, last, asked, readers, codec, net>>

\* Filter and perfect hash over the key stream, then publication; the
\* perfect hash cannot be built over a stream with a repeated key
BuildIndexAndPublish ==
    /\ fs.build.active /\ fs.build.written = DbRowCount
    /\ IF \E i, j \in 1..Len(fs.build.keys) : i # j /\ fs.build.keys[i] = fs.build.keys[j]
       THEN \E removed \in BOOLEAN : fs' = Abandon(removed)
       ELSE fs' = [fs EXCEPT !.final = File(BuildJar(fs.build.zstd, {}, 0), DbRowCount, TRUE),
                             !.tmp = NoFile,
                             !.build = NoBuild,
                             !.outcome = "published"]
    /\ UNCHANGED <<kind, db, jar, cur, last, asked, readers, codec, net>>

\* A reader loads the final path, at any moment
LoadFinal ==
    /\ last = NoCall
    /\ LET r == load(fs.final) IN
        /\ last' = Call("load", 0, 0, r)
        /\ jar' = IF r.res = "OkSome" THEN r.val ELSE jar
    /\ UNCHANGED <<kind, db, cur, asked, fs, readers, codec, net>>

NextBuild ==
    \/ BuildStart
    \/ BuildWriteRow
    \/ BuildFailIO
    \/ BuildIndexAndPublish
    \/ LoadFinal
    \/ Resume

SpecBuild == Init /\ [][NextBuild]_vars

(***************************************************************************)
(* Concurrent readers of one published segment: each takes a cursor from   *)
(* the provider and reads through it; the reads interleave in any order.   *)
(***************************************************************************)
\* A provider that keeps one cursor and hands it to every reader
cursor_slot_cached(r) == 1

\* cursor() makes a new NippyJarCursor at every call: reader r's cursor
\* is an object of its own
cursor_slot(r) == r

\* The readers share a headers segment; its rows are read by row number and
\* by key, neither of which depends on where the block range starts
InitReaders ==
    /\ Init
    /\ kind = "headers"
    /\ db.start = 0

FreezeForReaders ==
    /\ ~jar.loaded
    /\ \E zstd \in BOOLEAN : jar' = BuildJar(zstd, {}, 0)
    /\ UNCHANGED <<aux, kind, db, cur, last, asked>>

ReaderOpen ==
    /\ jar.loaded /\ last = NoCall
    /\ \E r \in 1..NumReaders, c \in {cursor, cursor_with_decompressors(IF jar.zstd THEN ColumnIds ELSE {})} :
        /\ readers.holds[r] = 0
        /\ LET curs == [readers.curs EXCEPT ![cursor_slot(r)] = c] IN
           readers' = [readers EXCEPT !.holds[r] = cursor_slot(r), !.curs = curs, !.prev = curs]
    /\ UNCHANGED <<kind, db, jar, cur, last, asked, fs, codec, net>>

ReaderRowByNumber ==
    /\ last = NoCall
    /\ \E r \in 1..NumReaders, mask \in 1..(2 ^ Len(jar.columns) - 1), row \in 0..MaxRows :
        /\ readers.holds[r] # 0
        /\ LET slot == readers.holds[r]
               res == row_by_number_with_cols(readers.curs[slot], mask, Len(jar.columns), row)
           IN  /\ readers' = [readers EXCEPT !.curs[slot] = res.cur, !.who = r,
                                             !.prev = readers.curs]
               /\ last' = Call("row_by_number", row, mask, res.out)
    /\ UNCHANGED <<kind, db, jar, cur, asked, fs, codec, net>>

ReaderRowByKey ==
    /\ last = NoCall
    /\ \E r \in 1..NumReaders, mask \in 1..(2 ^ Len(jar.columns) - 1), key \in Keys :
        /\ readers.holds[r] # 0
        /\ LET slot == readers.holds[r]
               res == row_by_key_with_cols(readers.curs[slot], mask, Len(jar.columns), key)
           IN  /\ readers' = [readers EXCEPT !.curs[slot] = res.cur, !.who = r,
                                             !.prev = readers.curs]
               /\ last' = Call("row_by_key", key, mask, res.out)
    /\ UNCHANGED <<kind, db, jar, cur, asked, fs, codec, net>>

\* The result is taken; nothing is in progress
ReaderResume ==
    /\ last # NoCall
    /\ last' = NoCall
    /\ readers' = [readers EXCEPT !.who = 0, !.prev = readers.curs]
    /\ UNCHANGED <<kind, db, jar, cur, asked, fs, codec, net>>

NextReaders ==
    \/ FreezeForReaders
    \/ ReaderOpen
    \/ ReaderRowByNumber
    \/ ReaderRowByKey
    \/ CallHeader
    \/ ReaderResume

SpecReaders == InitReaders /\ [][NextReaders]_vars

(***************************************************************************)
(* RLP of receipts (crates/primitives/src/receipt.rs).  Buffers are        *)
(* sequences of bytes.  Header, length_of_length and the codecs of bool,   *)
(* u64, Bloom, Address, B256, Bytes and Vec<Log> are those of alloy_rlp;   *)
(* the receipt encoder and decoder are translated from receipt.rs.         *)
(***************************************************************************)
Take(buf, n) == SubSeq(buf, 1, n)
Drop(buf, n) == SubSeq(buf, n + 1, Len(buf))

\* The big-endian bytes of n without leading zeros (empty for 0)
RECURSIVE BE(_)
BE(n) == IF n = 0 THEN <<>> ELSE BE(n \div 256) \o <<n % 256>>

RECURSIVE FromBE(_)
FromBE(bytes) ==
    IF bytes = <<>> THEN 0
    ELSE 256 * FromBE(Take(bytes, Len(bytes) - 1)) + bytes[Len(bytes)]

EMPTY_STRING_CODE == 128
EMPTY_LIST_CODE == 192

\* Results of decoding: the value and the buffer after it, or the error
\* and the buffer as the failed call left it
RlpOk(v, rest) == [ok |-> TRUE, err |-> "", val |-> v, rest |-> rest]
RlpErr(e, rest) == [ok |-> FALSE, err |-> e, val |-> <<>>, rest |-> rest]

\* F of the value of v, with v computed once
Let(v, F(_)) == CHOOSE y \in {F(x) : x \in {v}} : TRUE

\* The ? of Rust: the error of r, or F of what r holds
Try(r, F(_)) == Let(r, LAMBDA x : IF x.ok THEN F(x) ELSE x)

\* alloy_rlp::length_of_length
length_of_length(payload_length) ==
    IF payload_length < 56 THEN 1 ELSE 1 + Len(BE(payload_length))

\* alloy_rlp::Header::encode
Header_encode(list, payload_length) ==
    IF payload_length < 56
    THEN <<(IF list THEN EMPTY_LIST_CODE ELSE EMPTY_STRING_CODE) + payload_length>>
    ELSE <<(IF list THEN 247 ELSE 183) + Len(BE(payload_length))>> \o BE(payload_length)

\* The last step of Header::decode: the payload must be in the buffer
HeaderChecked(list, payload_length, rest) ==
    IF Len(rest) < payload_length THEN RlpErr("InputTooShort", rest)
    ELSE RlpOk([list |-> list, payload_length |-> payload_length], rest)

\* A length written with more bytes than the length of what remains has
\* is more than what remains
TooLong(len_of_len, rest) ==
    len_of_len > (IF Len(BE(Len(rest))) = 0 THEN 1 ELSE Len(BE(Len(rest))))

\* alloy_rlp::Header::decode: a byte below 0x80 is its own payload and is
\* not consumed
Header_decode(buf) ==
    IF buf = <<>> THEN RlpErr("InputTooShort", buf)
    ELSE LET b == buf[1]
             rest == Tail(buf)
         IN  IF b < EMPTY_STRING_CODE THEN HeaderChecked(FALSE, 1, buf)
             ELSE IF b <= 183
             THEN IF b - EMPTY_STRING_CODE = 1 /\ rest = <<>>
                  THEN RlpErr("InputTooShort", rest)
                  ELSE IF b - EMPTY_STRING_CODE = 1 /\ rest[1] < EMPTY_STRING_CODE
                  THEN RlpErr("NonCanonicalSingleByte", rest)
                  ELSE HeaderChecked(FALSE, b - EMPTY_STRING_CODE, rest)
             ELSE IF b >= EMPTY_LIST_CODE /\ b <= 247
             THEN HeaderChecked(TRUE, b - EMPTY_LIST_CODE, rest)
             ELSE LET list == b >= 248
                      len_of_len == b - (IF list THEN 247 ELSE 183)
                  IN  IF Len(rest) < len_of_len THEN RlpErr("InputTooShort", rest)
                      ELSE LET len == Take(rest, len_of_len)
                               after == Drop(rest, len_of_len)
                           IN  IF len[1] = 0 THEN RlpErr("LeadingZero", after)
                               ELSE IF TooLong(len_of_len, after)
                               THEN RlpErr("InputTooShort", after)
                               ELSE IF FromBE(len) < 56
                               THEN RlpErr("NonCanonicalSize", after)
                               ELSE HeaderChecked(list, FromBE(len), after)

\* alloy_rlp::Header::decode_bytes(buf, is_list): the payload
Header_decode_bytes(buf, is_list) ==
    Try(Header_decode(buf), LAMBDA h :
        IF h.val.list # is_list
        THEN RlpErr(IF is_list THEN "UnexpectedString" ELSE "UnexpectedList", h.rest)
        ELSE RlpOk(Take(h.rest, h.val.payload_length), Drop(h.rest, h.val.payload_length)))

\* Encodable for [u8] (Bloom, Address, B256, Bytes)
EncodeBytes(bytes) ==
    IF Len(bytes) # 1 \/ bytes[1] >= EMPTY_STRING_CODE
    THEN Header_encode(FALSE, Len(bytes)) \o bytes
    ELSE bytes

LengthBytes(bytes) ==
    IF Len(bytes) # 1 \/ bytes[1] >= EMPTY_STRING_CODE
    THEN Len(bytes) + length_of_length(Len(bytes))
    ELSE Len(bytes)

\* Decodable for FixedBytes<N>
DecodeFixed(buf, n) ==
    Try(Header_decode_bytes(buf, FALSE), LAMBDA r :
        IF Len(r.val) # n THEN RlpErr("UnexpectedLength", r.rest) ELSE r)

\* Encodable / Decodable for u64
EncodeUint(n) ==
    IF n = 0 THEN <<EMPTY_STRING_CODE>>
    ELSE IF n < EMPTY_STRING_CODE THEN <<n>>
    ELSE <<EMPTY_STRING_CODE + Len(BE(n))>> \o BE(n)

LengthUint(n) == IF n < EMPTY_STRING_CODE THEN 1 ELSE 1 + Len(BE(n))

DecodeUint(buf, bytes) ==
    Try(Header_decode_bytes(buf, FALSE), LAMBDA r :
        IF Len(r.val) > bytes THEN RlpErr("Overflow", r.rest)
        ELSE IF r.val # <<>> /\ r.val[1] = 0 THEN RlpErr("LeadingZero", r.rest)
        ELSE RlpOk(FromBE(r.val), r.rest))

\* Encodable / Decodable for bool
EncodeBool(b) == <<IF b THEN 1 ELSE EMPTY_STRING_CODE>>

DecodeBool(buf) ==
    Try(DecodeUint(buf, 1), LAMBDA r :
        IF r.val = 0 THEN RlpOk(FALSE, r.rest)
        ELSE IF r.val = 1 THEN RlpOk(TRUE, r.rest)
        ELSE RlpErr("invalid bool value, must be 0 or 1", r.rest))

\* Log { address, topics, data }, RlpEncodable / RlpDecodable
RECURSIVE EncodeTopics(_)
EncodeTopics(topics) ==
    IF topics = <<>> THEN <<>> ELSE EncodeBytes(Head(topics)) \o EncodeTopics(Tail(topics))

EncodeTopicList(topics) ==
    Header_encode(TRUE, Len(EncodeTopics(topics))) \o EncodeTopics(topics)

LogPayload(log) ==
    EncodeBytes(log.address) \o EncodeTopicList(log.topics) \o EncodeBytes(log.data)

EncodeLog(log) == Header_encode(TRUE, Len(LogPayload(log))) \o LogPayload(log)

RECURSIVE EncodeLogItems(_)
EncodeLogItems(logs) ==
    IF logs = <<>> THEN <<>> ELSE EncodeLog(Head(logs)) \o EncodeLogItems(Tail(logs))

\* Encodable for Vec<Log>
EncodeLogs(logs) ==
    Header_encode(TRUE, Len(EncodeLogItems(logs))) \o EncodeLogItems(logs)

RECURSIVE LengthTopics(_)
LengthTopics(topics) ==
    IF topics = <<>> THEN 0 ELSE LengthBytes(Head(topics)) + LengthTopics(Tail(topics))

LengthLog(log) ==
    LET payload == LengthBytes(log.address)
                   + LengthTopics(log.topics) + length_of_length(LengthTopics(log.topics))
                   + LengthBytes(log.data)
    IN  payload + length_of_length(payload)

RECURSIVE LengthLogItems(_)
LengthLogItems(logs) ==
    IF logs = <<>> THEN 0 ELSE LengthLog(Head(logs)) + LengthLogItems(Tail(logs))

\* Vec<Log>::length
LengthLogs(logs) == LengthLogItems(logs) + length_of_length(LengthLogItems(logs))

\* Decodable for Vec<B256>: items until the payload is used up
RECURSIVE DecodeTopicItems(_)
DecodeTopicItems(payload) ==
    IF payload = <<>> THEN RlpOk(<<>>, <<>>)
    ELSE Try(DecodeFixed(payload, 32), LAMBDA t :
         Try(DecodeTopicItems(t.rest), LAMBDA more :
         RlpOk(<<t.val>> \o more.val, <<>>)))

DecodeTopicList(buf) ==
    Try(Header_decode_bytes(buf, TRUE), LAMBDA p :
    Let(DecodeTopicItems(p.val), LAMBDA items :
        IF ~items.ok THEN RlpErr(items.err, p.rest) ELSE RlpOk(items.val, p.rest)))

DecodeLog(buf) ==
    Try(Header_decode(buf), LAMBDA h :
        IF ~h.val.list THEN RlpErr("UnexpectedString", h.rest)
        ELSE Try(DecodeFixed(h.rest, 20), LAMBDA address :
             Try(DecodeTopicList(address.rest), LAMBDA topics :
             Try(Header_decode_bytes(topics.rest, FALSE), LAMBDA data :
                 IF Len(h.rest) - Len(data.rest) # h.val.payload_length
                 THEN RlpErr("ListLengthMismatch", data.rest)
                 ELSE RlpOk([address |-> address.val, topics |-> topics.val,
                             data |-> data.val], data.rest)))))

RECURSIVE DecodeLogItems(_)
DecodeLogItems(payload) ==
    IF payload = <<>> THEN RlpOk(<<>>, <<>>)
    ELSE Try(DecodeLog(payload), LAMBDA l :
         Try(DecodeLogItems(l.rest), LAMBDA more :
         RlpOk(<<l.val>> \o more.val, <<>>)))

\* Decodable for Vec<Log>
DecodeLogs(buf) ==
    Try(Header_decode_bytes(buf, TRUE), LAMBDA p :
    Let(DecodeLogItems(p.val), LAMBDA items :
        IF ~items.ok THEN RlpErr(items.err, p.rest) ELSE RlpOk(items.val, p.rest)))

\* Bloom is 256 bytes
BloomLen == 256

TxTypes == {"Legacy", "EIP2930", "EIP1559", "EIP4844"}

Receipt(tx_type, success, cumulative_gas_used, logs) ==
    [tx_type |-> tx_type, success |-> success,
     cumulative_gas_used |-> cumulative_gas_used, logs |-> logs]

\* ReceiptWithBloom::new
ReceiptWithBloom(receipt, bloom) == [receipt |-> receipt, bloom |-> bloom]

\* ReceiptWithBloomEncoder::receipt_rlp_header
receipt_rlp_header(x) ==
    [list |-> TRUE,
     payload_length |-> 1 + LengthUint(x.receipt.cumulative_gas_used)
                        + LengthBytes(x.bloom) + LengthLogs(x.receipt.logs)]

\* ReceiptWithBloomEncoder::encode_fields
encode_fields(x) ==
    Header_encode(receipt_rlp_header(x).list, receipt_rlp_header(x).payload_length)
        \o EncodeBool(x.receipt.success)
        \o EncodeUint(x.receipt.cumulative_gas_used)
        \o EncodeBytes(x.bloom)
        \o EncodeLogs(x.receipt.logs)

TypeByte(tx_type) ==
    CASE tx_type = "EIP2930" -> 1
      [] tx_type = "EIP1559" -> 2
      [] tx_type = "EIP4844" -> 3
      [] OTHER -> 0

\* An encoder that writes the EIP-1559 type byte for EIP-4844 receipts
encode_inner_4844_as_1559(x, with_header) ==
    IF x.receipt.tx_type = "Legacy" THEN encode_fields(x)
    ELSE LET payload == encode_fields(x) IN
         (IF with_header THEN Header_encode(FALSE, Len(payload) + 1) ELSE <<>>)
            \o <<IF x.receipt.tx_type = "EIP2930" THEN 1 ELSE 2>>
            \o payload

\* ReceiptWithBloomEncoder::encode_inner
encode_inner(x, with_header) ==
    IF x.receipt.tx_type = "Legacy" THEN encode_fields(x)
    ELSE LET payload == encode_fields(x) IN
         (IF with_header THEN Header_encode(FALSE, Len(payload) + 1) ELSE <<>>)
            \o <<TypeByte(x.receipt.tx_type)>>
            \o payload

\* Encodable::encode for ReceiptWithBloom
encode(x) == encode_inner(x, TRUE)

\* ReceiptWithBloomEncoder::receipt_length
receipt_length(x) ==
    length_of_length(receipt_rlp_header(x).payload_length)
        + receipt_rlp_header(x).payload_length

\* A length that leaves out the type byte
length_without_type_byte(x) ==
    IF x.receipt.tx_type = "Legacy" THEN receipt_length(x)
    ELSE receipt_length(x) + length_of_length(receipt_length(x))

\* Encodable::length for ReceiptWithBloom
length(x) ==
    IF x.receipt.tx_type = "Legacy" THEN receipt_length(x)
    ELSE (receipt_length(x) + 1) + length_of_length(receipt_length(x) + 1)

\* A decode_receipt that does not compare the declared length
decode_receipt_unchecked_length(buf, tx_type) ==
    Let(Try(Header_decode(buf), LAMBDA rlp_head :
            IF ~rlp_head.val.list THEN RlpErr("UnexpectedString", rlp_head.rest)
            ELSE Try(DecodeBool(rlp_head.rest), LAMBDA success :
                 Try(DecodeUint(success.rest, 8), LAMBDA cumulative_gas_used :
                 Try(DecodeFixed(cumulative_gas_used.rest, BloomLen), LAMBDA bloom :
                 Try(DecodeLogs(bloom.rest), LAMBDA logs :
                     RlpOk(ReceiptWithBloom(
                               Receipt(tx_type, success.val,
                                       cumulative_gas_used.val, logs.val),
                               bloom.val),
                           logs.rest)))))),
        LAMBDA this : IF this.ok THEN this ELSE RlpErr(this.err, buf))

\* ReceiptWithBloom::decode_receipt: it reads from a copy b of the buffer
\* and moves the buffer (*buf = *b) only when everything was decoded
decode_receipt(buf, tx_type) ==
    Let(Try(Header_decode(buf), LAMBDA rlp_head :
            IF ~rlp_head.val.list THEN RlpErr("UnexpectedString", rlp_head.rest)
            ELSE Try(DecodeBool(rlp_head.rest), LAMBDA success :
                 Try(DecodeUint(success.rest, 8), LAMBDA cumulative_gas_used :
                 Try(DecodeFixed(cumulative_gas_used.rest, BloomLen), LAMBDA bloom :
                 Try(DecodeLogs(bloom.rest), LAMBDA logs :
                     IF Len(rlp_head.rest) - Len(logs.rest) # rlp_head.val.payload_length
                     THEN RlpErr("ListLengthMismatch", logs.rest)
                     ELSE RlpOk(ReceiptWithBloom(
                                    Receipt(tx_type, success.val,
                                            cumulative_gas_used.val, logs.val),
                                    bloom.val),
                                logs.rest)))))),
        LAMBDA this : IF this.ok THEN this ELSE RlpErr(this.err, buf))

\* Decodable::decode for ReceiptWithBloom
decode(buf) ==
    IF buf = <<>> THEN RlpErr("cannot decode a receipt from empty bytes", buf)
    ELSE IF buf[1] < EMPTY_LIST_CODE
    THEN Try(Header_decode(buf), LAMBDA string_header :
         IF string_header.rest = <<>>
         THEN RlpErr("typed receipt cannot be decoded from an empty slice", string_header.rest)
         ELSE IF string_header.rest[1] = 1 THEN decode_receipt(Tail(string_header.rest), "EIP2930")
         ELSE IF string_header.rest[1] = 2 THEN decode_receipt(Tail(string_header.rest), "EIP1559")
         ELSE IF string_header.rest[1] = 3 THEN decode_receipt(Tail(string_header.rest), "EIP4844")
         ELSE RlpErr("invalid receipt type", string_header.rest))
    ELSE IF buf[1] = EMPTY_LIST_CODE
    THEN RlpErr("an empty list is not a valid receipt encoding", buf)
    ELSE decode_receipt(buf, "Legacy")

(***************************************************************************)
(* Encoding a receipt, damaging the bytes, decoding them                   *)
(***************************************************************************)
GasValues == {0, 1, 128, 65536}
Blooms == {[i \in 1..BloomLen |-> 0], [i \in 1..BloomLen |-> IF i = 1 THEN 128 ELSE 0]}
\* The log of the tests: address 0x..11, topics 0x..dead and 0x..beef,
\* data 0x0100ff
LogAddress == [i \in 1..20 |-> IF i = 20 THEN 17 ELSE 0]
TopicDead == [i \in 1..32 |-> CASE i = 31 -> 222 [] i = 32 -> 173 [] OTHER -> 0]
TopicBeef == [i \in 1..32 |-> CASE i = 31 -> 190 [] i = 32 -> 239 [] OTHER -> 0]
TestLog == [address |-> LogAddress, topics |-> <<TopicDead, TopicBeef>>, data |-> <<1, 0, 255>>]
LogWithoutTopics == [address |-> LogAddress, topics |-> <<>>, data |-> <<127>>]
LogLists == {<<>>, <<TestLog>>, <<LogWithoutTopics, TestLog>>}
Tails == {<<>>, <<1>>}

ReceiptsWithBloom ==
    {ReceiptWithBloom(Receipt(t, s, g, l), b) :
        t \in TxTypes, s \in BOOLEAN, g \in GasValues, l \in LogLists, b \in Blooms}

\* The four fields without their list header
FieldsPayload(x) ==
    Drop(encode_fields(x), length_of_length(receipt_rlp_header(x).payload_length))

\* The envelope of a typed receipt around the given list, with the given
\* type byte; a legacy receipt has none
Envelope(x, type_byte, fields) ==
    IF x.receipt.tx_type = "Legacy" THEN fields
    ELSE Header_encode(FALSE, Len(fields) + 1) \o <<type_byte>> \o fields

Damages ==
    {"empty", "empty_list", "typed_empty", "type_0", "type_4", "string_payload",
     "length_plus", "length_minus"}

\* Invalid input made from the encoding of x
Damaged(x, d) ==
    LET p == receipt_rlp_header(x).payload_length IN
    CASE d = "empty" -> <<>>
      [] d = "empty_list" -> <<EMPTY_LIST_CODE>>
      [] d = "typed_empty" -> <<EMPTY_STRING_CODE>>
      [] d = "type_0" ->
            Header_encode(FALSE, Len(encode_fields(x)) + 1) \o <<0>> \o encode_fields(x)
      [] d = "type_4" ->
            Header_encode(FALSE, Len(encode_fields(x)) + 1) \o <<4>> \o encode_fields(x)
      [] d = "string_payload" ->
            Envelope(x, TypeByte(x.receipt.tx_type), Header_encode(FALSE, p) \o FieldsPayload(x))
      [] d = "length_plus" ->
            Envelope(x, TypeByte(x.receipt.tx_type),
                     Header_encode(TRUE, p + 1) \o FieldsPayload(x) \o <<0>>)
      [] d = "length_minus" ->
            Envelope(x, TypeByte(x.receipt.tx_type), Header_encode(TRUE, p - 1) \o FieldsPayload(x))

SnapshotIdle ==
    /\ kind = "headers"
    /\ db = [start |-> 0, headers |-> <<>>, txs |-> <<>>]
    /\ jar = NoJar /\ cur = ClosedCursor /\ last = NoCall /\ asked = <<>>
    /\ fs = NoFiles /\ readers = NoReaders

snapshot == <<kind, db, jar, cur, last, asked, fs, readers>>

InitReceipt ==
    /\ SnapshotIdle /\ gas = NoGas /\ net = NoNet
    /\ \E x \in ReceiptsWithBloom, tail \in Tails :
        rlp = [step |-> "value", x |-> x, tail |-> tail, buf |-> <<>>, len |-> 0,
               damage |-> "none", out |-> RlpErr("", <<>>)]

\* receipt.encode(&mut data) and receipt.length(); tail is what the caller's
\* buffer holds after the receipt
Encode ==
    /\ rlp.step = "value"
    /\ rlp' = [rlp EXCEPT !.step = "encoded",
                          !.buf = encode(rlp.x) \o rlp.tail,
                          !.len = length(rlp.x)]
    /\ UNCHANGED <<snapshot, gas, net>>

Damage ==
    /\ rlp.step = "encoded" /\ rlp.tail = <<>>
    /\ \E d \in Damages :
        rlp' = [rlp EXCEPT !.step = "damaged", !.damage = d, !.buf = Damaged(rlp.x, d)]
    /\ UNCHANGED <<snapshot, gas, net>>

\* ReceiptWithBloom::decode(&mut &data[..])
Decode ==
    /\ rlp.step \in {"encoded", "damaged"}
    /\ rlp' = [rlp EXCEPT !.step = "decoded", !.out = decode(rlp.buf)]
    /\ UNCHANGED <<snapshot, gas, net>>

NextReceipt ==
    \/ Encode
    \/ Damage
    \/ Decode

SpecReceipt == InitReceipt /\ [][NextReceipt]_vars

(***************************************************************************)
(* Receipts: a vector of blocks, each a vector of Option<Receipt>          *)
(***************************************************************************)
Ok(v) == [res |-> "Ok", val |-> v]

\* Option<Receipt>: None is a pruned receipt
NoReceipt == [present |-> FALSE, receipt |-> Receipt("Legacy", FALSE, 0, <<>>)]
SomeReceipt(r) == [present |-> TRUE, receipt |-> r]

BlockGas == {21000, 63000}
OptionalReceipts ==
    {NoReceipt} \cup {SomeReceipt(Receipt("Legacy", TRUE, g, <<>>)) : g \in BlockGas}
BlockReceipts == UNION {[1..n -> OptionalReceipts] : n \in 0..MaxTxs}

\* A gas_spent_by_tx that looks at the first block
gas_spent_by_tx_first_block(receipt_vec) ==
    IF receipt_vec = <<>> THEN Ok(<<>>)
    ELSE LET block_r == receipt_vec[1] IN
         IF \E id \in 1..Len(block_r) : ~block_r[id].present
         THEN Err("ReceiptsPruned")
         ELSE Ok([id \in 1..Len(block_r) |->
                    <<id - 1, block_r[id].receipt.cumulative_gas_used>>])

\* Receipts::gas_spent_by_tx: self.last(), then per receipt of that block
\* Ok((index, cumulative_gas_used)) or Err(ReceiptsPruned), collected into
\* one Result; Ok(vec![]) without a last block
gas_spent_by_tx(receipt_vec) ==
    IF receipt_vec = <<>> THEN Ok(<<>>)
    ELSE LET block_r == receipt_vec[Len(receipt_vec)] IN
         IF \E id \in 1..Len(block_r) : ~block_r[id].present
         THEN Err("ReceiptsPruned")
         ELSE Ok([id \in 1..Len(block_r) |->
                    <<id - 1, block_r[id].receipt.cumulative_gas_used>>])

\* Receipts::new()
InitGas ==
    /\ SnapshotIdle /\ rlp = NoRlp /\ net = NoNet
    /\ gas = [receipt_vec |-> <<>>, called |-> FALSE, before |-> <<>>, out |-> Ok(<<>>)]

\* Receipts::push
Push ==
    /\ Len(gas.receipt_vec) < MaxBlocks
    /\ \E receipts \in BlockReceipts :
        gas' = [receipt_vec |-> Append(gas.receipt_vec, receipts), called |-> FALSE,
                before |-> <<>>, out |-> Ok(<<>>)]
    /\ UNCHANGED <<snapshot, rlp, net>>

\* gas_spent_by_tx(&self); before is the collection as the call found it
GasSpentByTx ==
    /\ ~gas.called
    /\ gas' = [gas EXCEPT !.called = TRUE, !.before = gas.receipt_vec,
                          !.out = gas_spent_by_tx(gas.receipt_vec)]
    /\ UNCHANGED <<snapshot, rlp, net>>

NextGas ==
    \/ Push
    \/ GasSpentByTx

SpecGas == InitGas /\ [][NextGas]_vars

(***************************************************************************)
(* FetchClient (crates/net/network/src/fetch/client.rs): requests go to    *)
(* the fetcher over the unbounded channel request_tx, each with the sender *)
(* of a oneshot channel of its own for the response.                       *)
(***************************************************************************)
HeadersRequests == {[start |-> 1, limit |-> 1], [start |-> 7, limit |-> 2]}
BodiesRequests == {<<1>>, <<1, 2>>}
Priorities == {"Normal", "High"}

\* DownloadRequest::GetBlockHeaders / GetBlockBodies { request, response, priority }
DownloadRequest(variant, request, response, priority) ==
    [variant |-> variant, request |-> request, response |-> response, priority |-> priority]

\* oneshot::channel(): sent once a value was sent, dropped once the sender
\* was dropped without sending
Oneshot == [sent |-> FALSE, dropped |-> FALSE, value |-> [to |-> <<>>, ok |-> FALSE]]

Pending == [res |-> "Pending"]
\* Either::Left(FlattenedResponse::from(rx)) / Either::Right(future::err(e))
Left(rx) == [left |-> TRUE, rx |-> rx, ready |-> Pending]
Right(ready) == [left |-> FALSE, rx |-> 0, ready |-> ready]

\* What one call of the client did: the oneshot channel made for it,
\* whether request_tx.send succeeded, the future returned and what it
\* resolved to; the caller's arguments are filled in by the calling action
NotAsked == [method |-> "", request |-> <<>>, priority |-> ""]
FetchCall(chan, is_ok, fut) ==
    [asked |-> NotAsked, chan |-> chan, is_ok |-> is_ok, fut |-> fut, resolved |-> Pending]

\* The state after a call, with the arguments the caller passed
Called(after, method, request, priority) ==
    [after EXCEPT !.calls[Len(after.calls)].asked =
        [method |-> method, request |-> request, priority |-> priority]]

\* The body of both methods: a oneshot channel, the request sent on
\* request_tx, the receiver wrapped in the future; ChannelClosed at once
\* when the send fails
Dispatch(variant, request, priority) ==
    LET response == Len(net.chans) + 1 IN
    IF ~net.closed
    THEN [net EXCEPT
            !.chans = Append(@, Oneshot),
            !.queue = Append(@, DownloadRequest(variant, request, response, priority)),
            !.sent = Append(@, DownloadRequest(variant, request, response, priority)),
            !.calls = Append(@, FetchCall(response, TRUE, Left(response)))]
    ELSE [net EXCEPT
            !.chans = Append(@, [Oneshot EXCEPT !.dropped = TRUE]),
            !.calls = Append(@, FetchCall(response, FALSE,
                                          Right(Err("ChannelClosed"))))]

\* A client that sends every headers request with Priority::Normal
get_headers_with_normal_priority(request, priority) ==
    Dispatch("GetBlockHeaders", request, "Normal")

\* HeadersClient::get_headers_with_priority
get_headers_with_priority(request, priority) ==
    Dispatch("GetBlockHeaders", request, priority)

\* BodiesClient::get_block_bodies_with_priority
get_block_bodies_with_priority(request, priority) ==
    Dispatch("GetBlockBodies", request, priority)

InitFetch ==
    /\ SnapshotIdle /\ rlp = NoRlp /\ gas = NoGas
    /\ net = [closed |-> FALSE, queue |-> <<>>, sent |-> <<>>, chans |-> <<>>, calls |-> <<>>]

GetHeaders ==
    /\ Len(net.calls) < MaxCalls
    /\ \E request \in HeadersRequests, priority \in Priorities :
        net' = Called(get_headers_with_priority(request, priority),
                      "get_headers", request, priority)
    /\ UNCHANGED <<snapshot, codec>>

GetBlockBodies ==
    /\ Len(net.calls) < MaxCalls
    /\ \E request \in BodiesRequests, priority \in Priorities :
        net' = Called(get_block_bodies_with_priority(request, priority),
                      "get_block_bodies", request, priority)
    /\ UNCHANGED <<snapshot, codec>>

\* The fetcher answers one of the requests it holds, in any order, on the
\* sender that came with it
FetcherResponds ==
    /\ \E i \in 1..Len(net.queue), ok \in BOOLEAN :
        net' = [net EXCEPT
                  !.queue = SubSeq(@, 1, i - 1) \o SubSeq(@, i + 1, Len(@)),
                  !.chans[net.queue[i].response] =
                        [@ EXCEPT !.sent = TRUE,
                                  !.value = [to |-> net.queue[i].request, ok |-> ok]]]
    /\ UNCHANGED <<snapshot, codec>>

\* The receiving end of request_tx is dropped, and with it the requests
\* still queued and their senders
FetcherGone ==
    /\ ~net.closed
    /\ net' = [net EXCEPT
                 !.closed = TRUE,
                 !.queue = <<>>,
                 !.chans = [c \in 1..Len(net.chans) |->
                              IF \E i \in 1..Len(net.queue) : net.queue[i].response = c
                              THEN [net.chans[c] EXCEPT !.dropped = TRUE]
                              ELSE net.chans[c]]]
    /\ UNCHANGED <<snapshot, codec>>

\* The caller polls the future of one of its calls
PollFuture ==
    /\ \E i \in 1..Len(net.calls) :
        LET call == net.calls[i] IN
        /\ call.resolved = Pending
        /\ IF ~call.fut.left THEN net' = [net EXCEPT !.calls[i].resolved = call.fut.ready]
           ELSE IF net.chans[call.fut.rx].sent
           THEN net' = [net EXCEPT !.calls[i].resolved = Ok(net.chans[call.fut.rx].value)]
           ELSE /\ net.chans[call.fut.rx].dropped
                /\ net' = [net EXCEPT !.calls[i].resolved = Err("ChannelClosed")]
    /\ UNCHANGED <<snapshot, codec>>

NextFetch ==
    \/ GetHeaders
    \/ GetBlockBodies
    \/ FetcherResponds
    \/ FetcherGone
    \/ PollFuture

SpecFetch == InitFetch /\ [][NextFetch]_vars

(***************************************************************************)
(* Properties                                                              *)
(***************************************************************************)
BuildKeys == {FreezeKeys[i] : i \in 1..DbRowCount}
HashOps == {"header", "header_td", "transaction_by_hash"}

\* What the index gives for a key, read through a cursor of its own
IndexedRow(key) ==
    row_by_key_with_cols(NippyJarCursor_new(None), 1, Len(jar.columns), key).out
NumberedRow(row) ==
    row_by_number_with_cols(NippyJarCursor_new(None), 1, Len(jar.columns), row).out

\* The canonical key recomputed from a stored value; -1 when it does not decode
RecomputedKey(bytes) ==
    IF kind = "headers"
    THEN LET h == DecompressHeader(bytes) IN IF h.ok THEN hash_slow(h.val) ELSE -1
    ELSE LET t == DecompressTx(bytes) IN IF t.ok THEN tx_hash(t.val) ELSE -1

\* C1: for every block frozen into the segment, header(hash) and
\* header_td(hash) return Some value, equal to what the database provider
\* returns for that hash, and the returned header hashes to the queried hash,
\* whatever calls were made before.
C1_FrozenHashMatchesDatabase ==
    (last.op \in {"header", "header_td"} /\ last.arg \in BuildKeys) =>
        /\ last.out.res = "OkSome"
        /\ last.op = "header" =>
            /\ last.out = db_header(last.arg)
            /\ hash_slow(last.out.val) = last.arg
        /\ last.op = "header_td" => last.out = db_header_td(last.arg)

\* the second block's total difficulty, read from a compressed segment
C1_Witness ==
    /\ last.op = "header_td" /\ jar.zstd
    /\ Len(db.headers) >= 2 /\ last.arg = DbCanonicalHash(2)
    /\ last.out.res = "OkSome" /\ last.out.val = 2

\* C2: a hash-keyed query never returns a value whose recomputed hash
\* differs from the queried hash; when the row the index gives decodes to a
\* record with another hash, the result is Ok(None).
C2_NeverTheWrongRecord ==
    last.op \in HashOps =>
        /\ last.out.res = "OkSome" =>
            CASE last.op = "header" -> hash_slow(last.out.val) = last.arg
              [] last.op = "header_td" ->
                    \E i \in 1..Len(db.headers) :
                        DbCanonicalHash(i) = last.arg /\ DbHeaderTD(i) = last.out.val
              [] OTHER ->
                    /\ last.out.val.hash = last.arg
                    /\ tx_hash(last.out.val.transaction) = last.arg
        /\ (IndexedRow(last.arg).res = "Row"
                /\ RecomputedKey(IndexedRow(last.arg).cols[1]) # last.arg)
            => last.out = OkNone

\* an absent key passed the filter and the perfect hash gave an existing row
C2_Witness ==
    /\ last.op = "header_td" /\ last.arg \notin BuildKeys
    /\ last.arg \in jar.filter /\ jar.phf[last.arg] < jar.rows
    /\ last.out = OkNone

\* C3 (as claimed): a hash-keyed query for an absent key that the filter
\* rejects returns Ok(None).
C3_AbsentKeyIsOkNone ==
    (last.op \in HashOps /\ last.arg \notin BuildKeys /\ last.arg \notin jar.filter)
        => last.out = OkNone

\* C4: header_by_number(n), n in the block range, returns the header stored
\* at row n - block_start, and transaction_by_id(id), id in the transaction
\* range, the transaction stored at row id - tx_start.
C4_RowIsNumberMinusStart ==
    /\ (/\ last.op = "header_by_number"
        /\ last.arg \in jar.user_header.block_start..jar.user_header.block_end)
        => LET row == last.arg - jar.user_header.block_start IN
           /\ last.out = OkSome(DecompressHeader(NumberedRow(row).cols[1]).val)
           /\ last.out.val = db.headers[row + 1]
    /\ (/\ last.op = "transaction_by_id"
        /\ last.arg \in jar.user_header.tx_start..jar.user_header.tx_end)
        => LET row == last.arg - jar.user_header.tx_start IN
           /\ last.out = OkSome(WithHash(DecompressTx(NumberedRow(row).cols[1]).val))
           /\ last.out.val.transaction = db.txs[row + 1]

\* the second transaction of a segment that does not start at 0
C4_Witness ==
    /\ last.op = "transaction_by_id" /\ jar.user_header.tx_start > 0
    /\ last.arg = jar.user_header.tx_start + 1
    /\ last.out.res = "OkSome"

\* C5 (as claimed): a number-keyed lookup past the segment's last row yields
\* the empty Option.
C5_PastTheEndIsOkNone ==
    /\ (last.op = "header_by_number"
            /\ last.arg >= jar.user_header.block_start + jar.rows)
        => last.out = OkNone
    /\ (last.op = "transaction_by_id"
            /\ last.arg >= jar.user_header.tx_start + jar.rows)
        => last.out = OkNone

\* C6 (as claimed): every provider operation ends with a value or an error;
\* none of the range, sealed, total-difficulty-by-number, block-hash or
\* transaction-id operations aborts as unimplemented.
C6_NoOperationAborts ==
    last.op \in Placeholders => last.out.res \in {"OkSome", "OkNone", "Err"}

\* What the provider's read finds for a call: the cursor's result for the
\* key or number asked for
StoredRead(op, arg) ==
    LET fresh == NippyJarCursor_new(None) IN
    CASE op = "header" -> row_by_key_with_cols(fresh, 1, 2, arg).out
      [] op = "header_td" -> row_by_key_with_cols(fresh, 3, 2, arg).out
      [] op = "transaction_by_hash" -> row_by_key_with_cols(fresh, 1, 1, arg).out
      [] op = "header_by_number" ->
            row_by_number_with_cols(fresh, 1, 2, arg - jar.user_header.block_start).out
      [] OTHER ->
            row_by_number_with_cols(fresh, 1, 1, arg - jar.user_header.tx_start).out

\* The row read for the call is a format error, or a value of it does not decode
ReadFails(op, arg) ==
    LET r == StoredRead(op, arg) IN
    \/ r.res = "Err"
    \/ /\ r.res = "Row"
       /\ CASE op \in {"header", "header_by_number"} -> ~DecompressHeader(r.cols[1]).ok
            [] op = "header_td" ->
                    ~DecompressHeader(r.cols[1]).ok \/ ~DecompressTD(r.cols[2]).ok
            [] OTHER -> ~DecompressTx(r.cols[1]).ok

\* C7 (as claimed): when the cursor's row read fails or the value does not
\* decode during header, header_td, transaction_by_hash, header_by_number or
\* transaction_by_id, the call returns the error as its Err result and does
\* not abort.
C7_ReadErrorIsReturned ==
    (/\ last.op \in HashOps \cup {"header_by_number", "transaction_by_id"}
     /\ last.op \in {"header_by_number", "transaction_by_id"} =>
            last.arg >= (IF last.op = "header_by_number"
                         THEN jar.user_header.block_start
                         ELSE jar.user_header.tx_start)
     /\ ReadFails(last.op, last.arg))
        => last.out.res = "Err"

MaskColumns(mask) == {c \in ColumnIds : (mask \div (2 ^ c)) % 2 = 1}

\* C8: a cursor made without decompressors (as SnapshotProvider::cursor
\* makes it) over a zstd-compressed segment serves its reads: making it does
\* not fail, a compressed column's decompressor is made on first use and at
\* most once per cursor, and the reads of existing rows succeed, the
\* provider's own reads of a compressed segment among them.
C8_LazyDecompressors ==
    /\ cursor.open /\ cursor.lazy
    /\ cur.open => \A c \in ColumnIds : cur.made[c] <= 1
    /\ (cur.open /\ cur.lazy /\ last.op = "row_by_number" /\ last.arg < jar.rows) =>
        /\ last.out.res = "Row"
        /\ jar.zstd => MaskColumns(last.mask) \subseteq cur.decomp
        /\ \A c \in ColumnIds : cur.made[c] = (IF c \in cur.decomp THEN 1 ELSE 0)
    /\ (cur.open /\ cur.lazy /\ last.op = "row_by_key" /\ last.arg \in BuildKeys) =>
        last.out.res = "Row"
    /\ (/\ jar.zstd /\ last.op = "header_by_number"
        /\ last.arg \in jar.user_header.block_start..jar.user_header.block_end) =>
        last.out.res = "OkSome"
    /\ (jar.zstd /\ last.op = "transaction_by_hash" /\ last.arg \in BuildKeys) =>
        last.out.res = "OkSome"

\* a read that found the decompressor of column 0 already live and used it
C8_Witness ==
    /\ jar.zstd /\ cur.open /\ cur.lazy
    /\ last.op = "row_by_number" /\ 0 \in MaskColumns(last.mask)
    /\ 0 \in last.before /\ cur.made[0] = 1
    /\ last.out.res = "Row"

\* C9: in every built segment of M rows each column's offset table has M + 1
\* entries; row_by_number succeeds for every row below M and gives no row
\* for every row from M on; header_by_number(block_start + i) finds a header
\* exactly for i < M and is rejected with HeaderNotFound from M on.
C9_RowCount ==
    jar.loaded =>
        /\ jar.rows = DbRowCount
        /\ \A c \in 1..Len(jar.columns) : Len(jar.columns[c].offsets) = jar.rows + 1
        /\ last.op = "row_by_number" =>
            /\ last.arg < jar.rows =>
                /\ last.out.res = "Row"
                /\ Len(last.out.cols) = Cardinality(MaskColumns(last.mask))
            /\ last.arg >= jar.rows => last.out = NoRow
        /\ (last.op = "header_by_number" /\ last.arg >= jar.user_header.block_start) =>
            /\ last.arg - jar.user_header.block_start < jar.rows
                    => last.out.res = "OkSome"
            /\ last.arg - jar.user_header.block_start >= jar.rows
                    => last.out = Err("HeaderNotFound")

\* the last row by number, and both columns of it
C9_Witness ==
    /\ last.op = "row_by_number" /\ last.mask = 3
    /\ jar.rows >= 2 /\ last.arg = jar.rows - 1
    /\ last.out.res = "Row" /\ Len(last.out.cols) = 2

\* C10 (as claimed): the filter reports no build-time key absent; a key never
\* inserted may pass the filter, and the lookup then still yields not-found.
C10_FilterSoundness ==
    jar.loaded =>
        /\ BuildKeys \subseteq jar.filter
        /\ (last.op \in HashOps /\ last.arg \notin BuildKeys /\ last.arg \in jar.filter)
            => last.out = OkNone

\* C11: row_by_key asks the filter first; when the filter reports the key
\* absent the result is no row, the perfect hash is not asked and no
\* decompressor is made; otherwise the perfect hash is asked and its row
\* number is read as row_by_number reads it, so a number from M on gives no
\* row; the key is not compared with the row found.
C11_KeyLookupOrder ==
    (cur.open /\ last.op = "row_by_key") =>
        /\ Head(asked) = "filter"
        /\ last.arg \notin jar.filter =>
            /\ asked = <<"filter">>
            /\ last.out = NoRow
            /\ cur.decomp = last.before
        /\ last.arg \in jar.filter =>
            /\ asked = <<"filter", "phf", "columns">>
            /\ last.out = row_by_number_with_cols(NippyJarCursor_new(None), last.mask,
                                                  Len(jar.columns), jar.phf[last.arg]).out
            /\ jar.phf[last.arg] >= jar.rows => last.out = NoRow
            /\ jar.phf[last.arg] < jar.rows => last.out.res = "Row"

\* a key the filter reports absent, asked of a compressed two-column segment
C11_Witness ==
    /\ cur.open /\ last.op = "row_by_key" /\ last.mask = 3 /\ jar.zstd
    /\ last.arg \notin jar.filter
    /\ asked = <<"filter">> /\ last.out = NoRow /\ cur.decomp = {}

\* C14: in the build for headers the i-th key is the hash of the i-th row
\* written, the header of block range.start + i, the number of keys is the
\* row count, and the perfect hash sends each block's hash to its row.
C14_KeysAlignedWithRows ==
    (jar.loaded /\ kind = "headers") =>
        /\ Len(FreezeKeys) = jar.rows
        /\ \A i \in 1..jar.rows :
            LET r == NumberedRow(i - 1) IN
            /\ r.res = "Row"
            /\ RecomputedKey(r.cols[1]) = FreezeKeys[i]
            /\ DecompressHeader(r.cols[1]).val.number = jar.user_header.block_start + i - 1
            /\ jar.phf[FreezeKeys[i]] = i - 1

\* the second block of a range starting at 1, found by its hash
C14_Witness ==
    /\ jar.loaded /\ kind = "headers" /\ jar.rows >= 2 /\ db.start = 1
    /\ last.op = "header" /\ last.arg = FreezeKeys[2]
    /\ last.out.res = "OkSome" /\ last.out.val.number = 2

\* C20 (as claimed): header_by_number of a number below block_start, and
\* transaction_by_id of an id below tx_start, give not-found or an error
\* and do not abort.
C20_BelowStartDoesNotAbort ==
    /\ (last.op = "header_by_number" /\ last.arg < jar.user_header.block_start)
            => last.out.res \in {"OkNone", "Err"}
    /\ (last.op = "transaction_by_id" /\ last.arg < jar.user_header.tx_start)
            => last.out.res \in {"OkNone", "Err"}

\* C12: at every moment of a build, and after a build that failed on an I/O
\* failure after a partial write or on a repeated key, the final path holds
\* no file or a file that loads as a valid segment; after a failed build it
\* holds what it held before the build, byte for byte; a reader loading the
\* final path gets a valid segment or a load error.
C12_AtomicPublish ==
    /\ fs.final.exists =>
        /\ load(fs.final).res = "OkSome"
        /\ \A c \in 1..Len(fs.final.seg.columns) :
            Len(fs.final.seg.columns[c].offsets) = fs.final.seg.rows + 1
    /\ fs.outcome = "failed" => fs.final = fs.before
    /\ last.op = "load" =>
        \/ last.out = Err("io")
        \/ /\ last.out.res = "OkSome" /\ jar = last.out.val
           /\ jar.rows = DbRowCount /\ BuildKeys \subseteq jar.filter
           /\ \A c \in 1..Len(jar.columns) : Len(jar.columns[c].offsets) = jar.rows + 1

\* a build over a published segment failed after one row was written and
\* left its partial file behind; a reader then loaded the final path
C12_Witness ==
    /\ fs.outcome = "failed" /\ fs.before.exists /\ fs.final = fs.before
    /\ fs.tmp.exists /\ Len(fs.tmp.seg.columns[1].offsets) = 2 /\ fs.tmp.seg.rows = 2
    /\ fs.tmp.seg.zstd # fs.final.seg.zstd
    /\ last.op = "load" /\ last.out.res = "OkSome"

\* C13: any number of readers, each with a cursor of its own, interleave
\* row_by_number and row_by_key reads of one published segment, and the
\* provider's own queries run among them: every read returns what the same
\* read returns through a cursor used by nobody else, no read changes the
\* segment, and no read changes a cursor held by another reader.
C13_ReadersDoNotInterfere ==
    jar.loaded =>
        /\ jar = BuildJar(jar.zstd, {}, 0)
        /\ \A r1, r2 \in 1..NumReaders :
            (r1 # r2 /\ readers.holds[r1] # 0) => readers.holds[r1] # readers.holds[r2]
        /\ readers.who # 0 =>
            /\ last.op = "row_by_number" =>
                last.out = row_by_number_with_cols(cursor, last.mask, Len(jar.columns), last.arg).out
            /\ last.op = "row_by_key" =>
                last.out = row_by_key_with_cols(cursor, last.mask, Len(jar.columns), last.arg).out
            /\ \A r \in 1..NumReaders \ {readers.who} :
                readers.holds[r] # 0 =>
                    readers.curs[readers.holds[r]] = readers.prev[readers.holds[r]]
        /\ last.op = "header" =>
            /\ last.arg \in BuildKeys => last.out = db_header(last.arg)
            /\ readers.curs = readers.prev

\* reader 2 reads a compressed row while reader 1 holds a cursor that has
\* already made its decompressor; each ends with one decompressor of its own
C13_Witness ==
    /\ jar.zstd /\ readers.who = 2 /\ last.op = "row_by_key" /\ last.out.res = "Row"
    /\ readers.holds[1] # 0 /\ readers.holds[2] # 0
    /\ readers.curs[readers.holds[1]].lazy /\ readers.curs[readers.holds[1]].made[0] = 1
    /\ readers.curs[readers.holds[2]].lazy /\ readers.curs[readers.holds[2]].made[0] = 1
    /\ readers.prev[readers.holds[2]].made[0] = 0

\* The buffer decode hands to decode_receipt: the whole buffer of a legacy
\* receipt, what follows the string header and the type byte of a typed one
GivenToDecodeReceipt(buf) ==
    IF buf[1] > EMPTY_LIST_CODE THEN buf ELSE Tail(Header_decode(buf).rest)

\* C15: for every ReceiptWithBloom of every transaction type, decoding its
\* encoding gives the same value and consumes exactly the encoding's bytes;
\* a legacy receipt is encoded as a bare list, a typed one as a string
\* header, the type byte 1, 2 or 3, then the list.
C15_RlpRoundTrip ==
    (rlp.step = "decoded" /\ rlp.damage = "none") =>
        /\ rlp.out.ok
        /\ rlp.out.val = rlp.x
        /\ rlp.out.rest = rlp.tail
        /\ LET h == Header_decode(rlp.buf) IN
           /\ h.ok
           /\ Len(rlp.buf) - Len(h.rest) + h.val.payload_length = Len(rlp.buf) - Len(rlp.tail)
           /\ IF rlp.x.receipt.tx_type = "Legacy"
              THEN h.val.list
              ELSE /\ ~h.val.list
                   /\ h.rest[1] = TypeByte(rlp.x.receipt.tx_type)
                   /\ h.rest[1] \in {1, 2, 3}
                   /\ Header_decode(Tail(h.rest)).ok
                   /\ Header_decode(Tail(h.rest)).val.list
                   /\ Header_decode(Tail(h.rest)).val.payload_length
                        = receipt_rlp_header(rlp.x).payload_length

\* an EIP-4844 receipt with two logs, decoded from a buffer that goes on
C15_Witness ==
    /\ rlp.step = "decoded" /\ rlp.damage = "none" /\ rlp.tail = <<1>>
    /\ rlp.x.receipt.tx_type = "EIP4844" /\ Len(rlp.x.receipt.logs) = 2
    /\ rlp.x.receipt.cumulative_gas_used = 65536
    /\ rlp.out.ok /\ rlp.out.val = rlp.x /\ rlp.out.rest = <<1>>

\* C16: for every ReceiptWithBloom, legacy or typed, length() is the number
\* of bytes encode() writes, type byte and outer string header included.
C16_LengthIsEncodedLength ==
    (rlp.step = "encoded") => rlp.len = Len(rlp.buf) - Len(rlp.tail)

\* a typed receipt without logs: 1 + 1 + 259 + 1 bytes of fields, 3 of
\* list header, the type byte and 3 of string header
C16_Witness ==
    /\ rlp.step = "encoded" /\ rlp.x.receipt.tx_type = "EIP1559"
    /\ rlp.x.receipt.logs = <<>> /\ rlp.x.receipt.cumulative_gas_used = 0
    /\ rlp.len = 269 /\ Len(rlp.buf) = 269 + Len(rlp.tail)

\* C18: decode returns an error for an empty buffer, for a first byte 0xc0,
\* for a typed receipt with an empty payload, for a type byte other than 1,
\* 2 and 3, for a payload that is not a list and for a list whose declared
\* payload length is not the number of bytes its four fields take
\* (ListLengthMismatch); when decode_receipt fails the buffer it was given
\* is left where it was.
C18_DecodeRejectsInvalidInput ==
    (rlp.step = "decoded" /\ rlp.damage # "none") =>
        /\ ~rlp.out.ok
        /\ rlp.damage = "empty" => rlp.out.err = "cannot decode a receipt from empty bytes"
        /\ rlp.damage = "empty_list" =>
                rlp.out.err = "an empty list is not a valid receipt encoding"
        /\ rlp.damage = "typed_empty" =>
                rlp.out.err = "typed receipt cannot be decoded from an empty slice"
        /\ rlp.damage \in {"type_0", "type_4"} => rlp.out.err = "invalid receipt type"
        /\ (rlp.damage = "string_payload" /\ rlp.x.receipt.tx_type # "Legacy") =>
                /\ rlp.out.err = "UnexpectedString"
                /\ rlp.out.rest = GivenToDecodeReceipt(rlp.buf)
        /\ rlp.damage \in {"length_plus", "length_minus"} =>
                /\ rlp.out.err = "ListLengthMismatch"
                /\ rlp.out.rest = GivenToDecodeReceipt(rlp.buf)

\* a typed receipt whose list declares one byte less than its fields take:
\* the buffer stays after the string header (3 bytes) and the type byte
C18_Witness ==
    /\ rlp.step = "decoded" /\ rlp.damage = "length_minus"
    /\ rlp.x.receipt.tx_type = "EIP2930" /\ Len(rlp.x.receipt.logs) = 1
    /\ rlp.out.err = "ListLengthMismatch"
    /\ Len(rlp.out.rest) = Len(rlp.buf) - 4

\* C19: gas_spent_by_tx looks at the last block only: without blocks it is
\* Ok of nothing; with every receipt of the last block present it is Ok of
\* the pairs (i, cumulative_gas_used of receipt i) in index order; with a
\* pruned receipt in the last block it is Err(ReceiptsPruned); the earlier
\* blocks make no difference and the collection is left as it was.
C19_GasSpentByTxOfLastBlock ==
    gas.called =>
        /\ gas.receipt_vec = gas.before
        /\ gas.receipt_vec = <<>> => gas.out = Ok(<<>>)
        /\ gas.receipt_vec # <<>> =>
            LET block_r == gas.receipt_vec[Len(gas.receipt_vec)] IN
            /\ (\A i \in 1..Len(block_r) : block_r[i].present) =>
                /\ gas.out.res = "Ok"
                /\ Len(gas.out.val) = Len(block_r)
                /\ \A i \in 1..Len(block_r) :
                    gas.out.val[i] = <<i - 1, block_r[i].receipt.cumulative_gas_used>>
            /\ (\E i \in 1..Len(block_r) : ~block_r[i].present) =>
                gas.out = Err("ReceiptsPruned")

\* two receipts in the last block, after a block with a pruned receipt
C19_Witness ==
    /\ gas.called /\ Len(gas.receipt_vec) = 2
    /\ \E i \in 1..Len(gas.receipt_vec[1]) : ~gas.receipt_vec[1][i].present
    /\ gas.out = Ok(<< <<0, 21000>>, <<1, 63000>> >>)

\* The requests ever put on request_tx that carry the sender of channel c
SentWith(c) == {j \in 1..Len(net.sent) : net.sent[j].response = c}

\* C17: every call of get_headers_with_priority and
\* get_block_bodies_with_priority makes a oneshot channel of its own; with
\* the request channel open it puts exactly one DownloadRequest on it, with
\* the request and priority given and that channel's sender, and its future
\* resolves with what is sent on that channel; with the request channel
\* closed it puts nothing on it and its future resolves to ChannelClosed;
\* no response reaches the future of another call.
C17_FetchClientDispatch ==
    \A i \in 1..Len(net.calls) :
        LET call == net.calls[i] IN
        /\ \A k \in 1..Len(net.calls) : k # i => net.calls[k].chan # call.chan
        /\ call.is_ok =>
            /\ Cardinality(SentWith(call.chan)) = 1
            /\ \A j \in SentWith(call.chan) :
                net.sent[j] = DownloadRequest(IF call.asked.method = "get_headers"
                                              THEN "GetBlockHeaders" ELSE "GetBlockBodies",
                                              call.asked.request, call.chan,
                                              call.asked.priority)
            /\ call.fut = Left(call.chan)
            /\ call.resolved # Pending =>
                \/ /\ net.chans[call.chan].sent
                   /\ call.resolved = Ok(net.chans[call.chan].value)
                   /\ call.resolved.val.to = call.asked.request
                \/ /\ net.chans[call.chan].dropped
                   /\ call.resolved = Err("ChannelClosed")
        /\ ~call.is_ok =>
            /\ SentWith(call.chan) = {}
            /\ call.fut = Right(Err("ChannelClosed"))
            /\ call.resolved \in {Pending, Err("ChannelClosed")}

\* two calls in flight, answered in the other order; the second call's
\* future has its own response
C17_Witness ==
    /\ Len(net.calls) = 2
    /\ net.calls[1].asked.method = "get_headers"
    /\ net.calls[2].asked.method = "get_block_bodies"
    /\ net.calls[2].asked.priority = "High"
    /\ net.chans[1].sent /\ net.chans[2].sent /\ ~net.chans[1].value.ok
    /\ net.calls[1].resolved = Pending
    /\ net.calls[2].resolved = Ok([to |-> net.calls[2].asked.request, ok |-> TRUE])

====
